---- MODULE Spec2Model ----
\* A model of the arcade physics core of the ship demo: the photon pool
\* (GLPhotonQueue.h), the ship mover (GLShip.cpp) and the collision
\* functions (GLCollisionController.cpp).
\*
\* Numbers.  The program computes with floats.  Positions, velocities, radii
\* and masses are modelled as integers in units of 1/FIX; angles and angular
\* rates as integers in units of 1/AngUnit degree.  The inputs are chosen so
\* that the values are exact in both representations wherever a claim depends
\* on the exact value.
EXTENDS Integers, Sequences, FiniteSets, TLC

\* ------------------------------------------------------------------ bounds
\* Capacity of the pool (PhotonQueue::init(max)): chosen at construction.
Capacity == 3
\* Total number of photons ever allocated in one behaviour.
MaxShots == 4
\* Fixed-point resolution of positions and velocities (units per 1.0).
FIX == 100

\* Resolution of angles and angular rates (units per degree).
AngUnit == 8

\* ------------------------------------------------------------- constants
\* Age at which a photon is dead.
MAX_AGE == 5
\* The refire count the ship's counter is compared with.
RELOAD_RATE == 3
\* The size of the ship in pixels.
SHIP_SIZE == 81
\* Impulse for giving collisions a slight bounce, in thousandths.
COLLISION_COEFF == 100
\* The standard mass for a photon.
PHOTON_MASS == 5
\* Amount to adjust forward movement from input, in thousandths.
THRUST_FACTOR == 400
\* Amount to adjust angular movement from input, in thousandths.
BANK_FACTOR == 100
\* Maximum turning/banking speed, in degrees.
MAXIMUM_BANK == 5
\* Amount to decay forward thrust over time, in thousandths.
FORWARD_DAMPING == 900
\* Amount to decay angular movement over time, in thousandths.
ANGULAR_DAMPING == 875

\* ---------------------------------------------------------------- numbers
\* a / b rounded to the nearest integer, ties to even, as a float operation
\* rounds its exact result (b > 0).
RoundDiv(a, b) ==
    LET q == a \div b
        r == a - q * b
    IN  IF 2 * r < b THEN q
        ELSE IF 2 * r > b THEN q + 1
        ELSE IF q % 2 = 0 THEN q ELSE q + 1

\* The product of two fixed-point numbers.
Mul(a, b) == RoundDiv(a * b, FIX)

\* sqrtf of a non-negative integer, rounded to nearest.
RECURSIVE SqrtFrom(_, _, _)
SqrtFrom(n, lo, hi) ==
    IF hi - lo <= 1 THEN lo
    ELSE LET mid == (lo + hi) \div 2 IN
         IF mid * mid <= n THEN SqrtFrom(n, mid, hi) ELSE SqrtFrom(n, lo, mid)
Sqrt(n) ==
    LET r == SqrtFrom(n, 0, 46340) IN
    IF n - r * r > r THEN r + 1 ELSE r

\* ---------------------------------------------------------------- vectors
\* cugl::Vec2 in fixed point.  nan is set when the components are NaN.
Vec(a, b) == [x |-> a, y |-> b, nan |-> FALSE]
VNaN == [x |-> 0, y |-> 0, nan |-> TRUE]
VZero == Vec(0, 0)
VAdd(u, v) == IF u.nan \/ v.nan THEN VNaN ELSE Vec(u.x + v.x, u.y + v.y)
VSub(u, v) == IF u.nan \/ v.nan THEN VNaN ELSE Vec(u.x - v.x, u.y - v.y)
\* Vec2 * float, the scalar in fixed point.
VScale(u, c) == IF u.nan THEN VNaN ELSE Vec(Mul(u.x, c), Mul(u.y, c))
\* Vec2::dot
Dot(u, v) == Mul(u.x, v.x) + Mul(u.y, v.y)
\* Vec2::length
Length(u) == Sqrt(u.x * u.x + u.y * u.y)
\* Vec2::normalize: a vector too close to zero is left as it is.
Normalize(u) ==
    LET n == Length(u) IN
    IF n = 0 THEN u ELSE Vec(RoundDiv(u.x * FIX, n), RoundDiv(u.y * FIX, n))

\* The two ships' identities (SID).
ShipIds == {0, 1}

VARIABLES
    queue,      \* PhotonQueue::_queue: slot -> Photon
    qhead,      \* PhotonQueue::_qhead
    qtail,      \* PhotonQueue::_qtail
    qsize,      \* PhotonQueue::_qsize
    ships,      \* SID -> Ship
    tag,        \* history: slot -> allocation number of the photon in it
    nshots,     \* history: number of photons allocated so far
    retired,    \* history: <<allocation number, age>> of each photon retired
                \* while no photon has been force-retired
    marked,     \* history: allocation numbers destroyed since the last update
    forced,     \* history: some photon was destroyed (force-retired)
    sinceFire,  \* history: SID -> moves since its last allocation (-1: none yet)
    gap,        \* history: SID -> moves between its last two allocations (-1: none)
    collided,   \* history: the ships checked against the photons this frame
    prev,       \* history: the ships before the last call of the collision
                \* controller on ships, and the operation that preceded it
    lastOp      \* history: the operation that produced this state, and the ship

pool == <<queue, qhead, qtail, qsize>>
poolHist == <<tag, nshots, retired, marked, forced>>
fireHist == <<sinceFire, gap, prev>>
shipHist == <<sinceFire, gap, collided, prev>>
vars == <<queue, qhead, qtail, qsize, ships, tag, nshots, retired, marked,
          forced, sinceFire, gap, collided, prev, lastOp>>

Op(name, who) == [op |-> name, who |-> who, hit |-> {}]

Slots == 0 .. (Capacity - 1)

\* ----------------------------------------------------------------- photon
\* Photon::Photon(): a preallocated photon that "does not exist", age -1.
EmptyPhoton == [pos |-> VZero, vel |-> VZero, ship |-> -1, age |-> -1,
                scale |-> FIX]

\* Photon::allocate(id, p, v): age 0, scale 1.0.
PhotonAllocate(id, p, v) ==
    [pos |-> p, vel |-> v, ship |-> id, age |-> 0, scale |-> FIX]

\* Photon::update(): move by the velocity, age by one frame.
PhotonUpdate(p) == [p EXCEPT !.pos = VAdd(p.pos, p.vel), !.age = p.age + 1]

\* Photon::destroy(): the age becomes the maximum age.
PhotonDestroy(p) == [p EXCEPT !.age = MAX_AGE]

\* ------------------------------------------------------------------- pool
\* The slot of the photon at logical position i (0 = oldest).
SlotOf(h, i) == (h + i) % Capacity
LiveSlots(h, n) == {SlotOf(h, i) : i \in 0 .. (n - 1)}
Live == LiveSlots(qhead, qsize)

\* PhotonQueue::get(pos): the slot at a valid position, -1 ("null") otherwise.
Get(i) == IF i >= 0 /\ i < qsize THEN SlotOf(qhead, i) ELSE -1

\* PhotonQueue::init(max): an empty queue of preallocated photons.
PoolInit ==
    /\ queue = [k \in Slots |-> EmptyPhoton]
    /\ qhead = 0
    /\ qtail = 0
    /\ qsize = 0

\* A faulty addPhoton that makes room by dropping the oldest photon.
AddPhotonDropOldest(id, p, v) ==
    LET full == qsize = Capacity IN
    /\ queue' = [queue EXCEPT ![qtail] = PhotonAllocate(id, p, v)]
    /\ qtail' = (qtail + 1) % Capacity
    /\ qhead' = IF full THEN (qhead + 1) % Capacity ELSE qhead
    /\ qsize' = IF full THEN qsize ELSE qsize + 1

\* A faulty addPhoton that does not look at the capacity.
AddPhotonUnchecked(id, p, v) ==
    /\ queue' = [queue EXCEPT ![qtail] = PhotonAllocate(id, p, v)]
    /\ qtail' = (qtail + 1) % Capacity
    /\ qsize' = qsize + 1
    /\ qhead' = qhead

\* PhotonQueue::addPhoton: a live photon at the tail slot; nothing when full.
AddPhoton(id, p, v) ==
    IF qsize = Capacity
    THEN UNCHANGED pool
    ELSE /\ queue' = [queue EXCEPT ![qtail] = PhotonAllocate(id, p, v)]
         /\ qtail' = (qtail + 1) % Capacity
         /\ qsize' = qsize + 1
         /\ qhead' = qhead

\* A faulty retirement that retires the head whatever its age.
RetireCountEager(q, h, n) == IF n > 0 THEN 1 ELSE 0

\* The number of photons retired from the head of q: those at the head whose
\* age has reached MAX_AGE, up to the first that is younger.
RECURSIVE RetireCount(_, _, _)
RetireCount(q, h, n) ==
    IF n > 0 /\ q[h].age >= MAX_AGE
    THEN 1 + RetireCount(q, (h + 1) % Capacity, n - 1)
    ELSE 0

\* The queue with every live photon moved and aged by one frame.
Aged == [k \in Slots |-> IF k \in Live THEN PhotonUpdate(queue[k]) ELSE queue[k]]

\* PhotonQueue::update: move and age every live photon, then retire from
\* the head.
Update ==
    LET r == RetireCount(Aged, qhead, qsize) IN
    /\ queue' = Aged
    /\ qhead' = (qhead + r) % Capacity
    /\ qsize' = qsize - r
    /\ qtail' = qtail

\* ---------------------------------------------------------- pool operations
\* The owner, position and velocity of the allocation that follows n earlier
\* ones: the two ships take turns, each shot from a place and with a velocity
\* of its own.
PoolInput(n) ==
    <<n % 2, Vec(10 * n * FIX, 0), Vec((1 - 2 * (n % 2)) * FIX, -n * FIX)>>

\* allocate(ownerId, position, velocity)
Allocate(id, p, v) ==
    /\ nshots < MaxShots
    /\ AddPhoton(id, p, v)
    /\ IF qsize' > qsize \/ qtail' # qtail
       THEN /\ tag' = [tag EXCEPT ![qtail] = nshots + 1]
            /\ nshots' = nshots + 1
            /\ lastOp' = Op("add", id)
       ELSE /\ UNCHANGED <<tag, nshots>>
            /\ lastOp' = Op("addFull", id)
    /\ UNCHANGED <<ships, retired, marked, forced, shipHist>>

\* markDead(ref): the photon at logical position i is destroyed.
MarkDead(i) ==
    /\ Get(i) # -1
    /\ queue' = [queue EXCEPT ![Get(i)] = PhotonDestroy(queue[Get(i)])]
    /\ marked' = marked \cup {tag[Get(i)]}
    /\ forced' = TRUE
    /\ lastOp' = Op("destroy", -1)
    /\ UNCHANGED <<qhead, qtail, qsize, ships, tag, nshots, retired, shipHist>>

\* advance()
Advance ==
    /\ Update
    /\ retired' =
          IF forced THEN retired
          ELSE retired \o
                 [i \in 1 .. (qsize - qsize') |->
                    <<tag[SlotOf(qhead, i - 1)], queue'[SlotOf(qhead, i - 1)].age>>]
    /\ marked' = {}
    /\ lastOp' = Op("update", -1)
    /\ collided' = {}
    /\ UNCHANGED <<ships, tag, nshots, forced, fireHist>>

\* ------------------------------------------------------------------- ship
\* sinf of a whole number of degrees, in fixed point (Bhaskara's rational
\* approximation, exact at the multiples of 90 degrees).
SinDeg(d) ==
    LET m == d % 360
        x == IF m <= 180 THEN m ELSE m - 180
        p == x * (180 - x)
        v == RoundDiv(4 * p * FIX, 40500 - p)
    IN  IF m <= 180 THEN v ELSE -v
CosDeg(d) == SinDeg(d + 90)

\* Ship::Ship() and Ship::init(x, y, ang): radius SHIP_SIZE/2 (an integer
\* division), mass 1, no angular rate, refire 0.
NewShip(p, a) ==
    [pos |-> p, vel |-> VZero, ang |-> a, dang |-> 0, refire |-> 0,
     radius |-> (SHIP_SIZE \div 2) * FIX, mass |-> FIX]

\* A faulty turn whose damping overshoots zero.
ProcessTurnOvershoot(dang, turn) ==
    IF turn # 0
    THEN LET d == dang - RoundDiv(turn * 1000 * AngUnit, BANK_FACTOR) IN
         IF d < -(MAXIMUM_BANK * AngUnit) THEN -(MAXIMUM_BANK * AngUnit)
         ELSE IF d > MAXIMUM_BANK * AngUnit THEN MAXIMUM_BANK * AngUnit
         ELSE d
    ELSE IF dang # 0 THEN -RoundDiv(dang * ANGULAR_DAMPING, 1000) ELSE dang

\* Ship::processTurn, the new angular rate (the ship has no scene node, so
\* the animation frame is not kept).
ProcessTurn(dang, turn) ==
    IF turn # 0
    THEN LET d == dang - RoundDiv(turn * 1000 * AngUnit, BANK_FACTOR) IN
         IF d < -(MAXIMUM_BANK * AngUnit) THEN -(MAXIMUM_BANK * AngUnit)
         ELSE IF d > MAXIMUM_BANK * AngUnit THEN MAXIMUM_BANK * AngUnit
         ELSE d
    ELSE IF dang # 0 THEN RoundDiv(dang * ANGULAR_DAMPING, 1000) ELSE dang

\* Ship::move, the wrap of the angle: "if (_ang > 360) _ang -= 360;
\* if (_ang < 0) _ang += 360".
WrapAngle(a) ==
    LET b == IF a > 360 * AngUnit THEN a - 360 * AngUnit ELSE a IN
    IF b < 0 THEN b + 360 * AngUnit ELSE b

\* Ship::move, the thrust: dir * forward * THRUST_FACTOR with
\* dir = (cosf(rads), sinf(rads)), rads = M_PI*_ang/180 + M_PI_2.
Thrust(a, forward) ==
    LET d == RoundDiv(a, AngUnit) + 90 IN
    Vec(RoundDiv(CosDeg(d) * forward * THRUST_FACTOR, 1000),
        RoundDiv(SinDeg(d) * forward * THRUST_FACTOR, 1000))

\* A faulty counter that never saturates.
RefireStepUnbounded(r) == r + 1

\* A faulty counter that advances by two.
RefireStepDouble(r) == IF r <= RELOAD_RATE THEN r + 2 ELSE r

\* Ship::move, the refire counter: "if (_refire <= RELOAD_RATE) _refire++".
RefireStep(r) == IF r <= RELOAD_RATE THEN r + 1 ELSE r

\* Ship::move(forward, turn), the ship after the call.
Moved(sh, forward, turn) ==
    LET dang1 == ProcessTurn(sh.dang, turn)
        vel1 == IF forward # 0
                THEN VAdd(sh.vel, Thrust(sh.ang, forward))
                ELSE IF sh.vel.nan THEN VNaN
                ELSE Vec(RoundDiv(sh.vel.x * FORWARD_DAMPING, 1000),
                         RoundDiv(sh.vel.y * FORWARD_DAMPING, 1000))
    IN  [sh EXCEPT !.dang = dang1,
                   !.vel = vel1,
                   !.ang = WrapAngle(sh.ang + dang1),
                   !.pos = VAdd(sh.pos, vel1),
                   !.refire = RefireStep(sh.refire)]

\* The ships' start positions and the input intents.
StartPos == [s \in ShipIds |-> Vec((100 + 100 * s) * FIX, 100 * FIX)]
Intents == {-1, 0, 1}

ShipInit == ships = [s \in ShipIds |-> NewShip(StartPos[s], 0)]

HistInit ==
    /\ tag = [k \in Slots |-> 0]
    /\ nshots = 0
    /\ retired = <<>>
    /\ marked = {}
    /\ forced = FALSE
    /\ sinceFire = [s \in ShipIds |-> -1]
    /\ gap = [s \in ShipIds |-> -1]
    /\ collided = {}
    /\ prev = [ships |-> [s \in ShipIds |-> NewShip(StartPos[s], 0)],
               op |-> Op("init", -1)]
    /\ lastOp = Op("init", -1)

InitPool == PoolInit /\ ShipInit /\ HistInit

NextPool ==
    \/ \E in \in {PoolInput(nshots)} : Allocate(in[1], in[2], in[3])
    \/ \E i \in 0 .. (Capacity - 1) : MarkDead(i)
    \/ Advance

SpecPool == InitPool /\ [][NextPool]_vars

\* -------------------------------------------------------------- collisions
\* The photon radius taken from the texture: max(width, height)/2.
PhotonRadius == 8 * FIX

\* A faulty ownership test that lets a ship be hit by its own photons.
CandidateAny(ph, sid) == TRUE

\* "We are immune to our own photons": photon->ship != ship->getSID().
Candidate(ph, sid) == ph.ship # sid

\* The distance at which the ship and the photon touch.
ImpactDistance(sh, ph) == sh.radius + Mul(PhotonRadius, ph.scale)

\* A faulty impulse without the bounce: the factor is 1, not 1 + e.
ImpulseNoBounce(e, norm, vel, m1, m2) ==
    LET num == -Mul(FIX, Dot(norm, vel))
        den == Mul(Dot(norm, norm), RoundDiv(FIX * FIX, m1) + RoundDiv(FIX * FIX, m2))
    IN  IF vel.nan \/ den = 0
        THEN [nan |-> TRUE, v |-> 0]
        ELSE [nan |-> FALSE,
              v |-> IF num >= 0 THEN RoundDiv(num * FIX, den)
                    ELSE -RoundDiv((-num) * FIX, den)]

\* A faulty impulse of a perfectly elastic impact: the factor is 2.
ImpulseElastic(e, norm, vel, m1, m2) ==
    LET num == -Mul(2 * FIX, Dot(norm, vel))
        den == Mul(Dot(norm, norm), RoundDiv(FIX * FIX, m1) + RoundDiv(FIX * FIX, m2))
    IN  IF vel.nan \/ den = 0
        THEN [nan |-> TRUE, v |-> 0]
        ELSE [nan |-> FALSE,
              v |-> IF num >= 0 THEN RoundDiv(num * FIX, den)
                    ELSE -RoundDiv((-num) * FIX, den)]

\* The impulse of Newton's law of impact along norm for the relative
\* velocity vel and the two masses, with e the coefficient the build defines
\* as COLLISION_COEFF (in thousandths); nan when the float division is 0/0.
ImpulseWith(e, norm, vel, m1, m2) ==
    LET num == -Mul(FIX + RoundDiv(e * FIX, 1000), Dot(norm, vel))
        den == Mul(Dot(norm, norm), RoundDiv(FIX * FIX, m1) + RoundDiv(FIX * FIX, m2))
    IN  IF vel.nan \/ den = 0
        THEN [nan |-> TRUE, v |-> 0]
        ELSE [nan |-> FALSE,
              v |-> IF num >= 0 THEN RoundDiv(num * FIX, den)
                    ELSE -RoundDiv((-num) * FIX, den)]

\* The impulse as the code is built.
Impulse(norm, vel, m1, m2) == ImpulseWith(COLLISION_COEFF, norm, vel, m1, m2)

\* A faulty response that bounces the photon as well as destroying it.
StruckPhotonBounced(ph, norm, imp) ==
    [PhotonDestroy(ph) EXCEPT
        !.vel = IF imp.nan THEN VNaN
                ELSE VSub(ph.vel, VScale(norm, RoundDiv(imp.v, PHOTON_MASS)))]

\* The photon after it has hit a ship: "photon->destroy()".
StruckPhoton(ph, norm, imp) == PhotonDestroy(ph)

\* The ship after a photon has hit it: rolled back by half the overlap along
\* norm, its velocity changed by impulse/mass along norm.
StruckShip(sh, norm, dist, impact, imp) ==
    [sh EXCEPT
        !.pos = VAdd(sh.pos, Vec(RoundDiv(norm.x * (impact - dist), 2 * FIX),
                                 RoundDiv(norm.y * (impact - dist), 2 * FIX))),
        !.vel = IF imp.nan THEN VNaN
                ELSE VAdd(sh.vel, VScale(norm, RoundDiv(imp.v * FIX, sh.mass)))]

\* collisions::checkForCollision(ship, photons), the loop from position ii:
\* the ship, the queue and the slots hit once the loop has ended.
RECURSIVE CollidePhotons(_, _, _, _, _)
CollidePhotons(sh, sid, q, hit, ii) ==
    IF ii >= qsize THEN [ship |-> sh, queue |-> q, hit |-> hit]
    ELSE
      LET k == SlotOf(qhead, ii)
          ph == q[k]
          diff == VSub(sh.pos, ph.pos)
          dist == Length(diff)
          impact == ImpactDistance(sh, ph)
          norm == Normalize(diff)
          imp == Impulse(norm, VSub(sh.vel, ph.vel), sh.mass, PHOTON_MASS * FIX)
      IN  IF Candidate(ph, sid) /\ ~diff.nan /\ dist < impact
          THEN CollidePhotons(StruckShip(sh, norm, dist, impact, imp), sid,
                              [q EXCEPT ![k] = StruckPhoton(ph, norm, imp)],
                              hit \cup {k}, ii + 1)
          ELSE CollidePhotons(sh, sid, q, hit, ii + 1)

\* The call of checkForCollision(ship, photons) for ship s, made once in a
\* frame (a frame ends with the pool's update).
Collide(s) ==
    LET r == CollidePhotons(ships[s], s, queue, {}, 0) IN
    /\ s \notin collided
    /\ collided' = collided \cup {s}
    /\ ships' = [ships EXCEPT ![s] = r.ship]
    /\ queue' = r.queue
    /\ marked' = marked \cup {tag[k] : k \in r.hit}
    /\ forced' = (forced \/ r.hit # {})
    /\ lastOp' = [op |-> "collide", who |-> s, hit |-> r.hit]
    /\ UNCHANGED <<qhead, qtail, qsize, tag, nshots, retired, fireHist>>

\* The photons of the collision runs: one lying on ship 0 and owned by it,
\* and one of ship 1 that starts out of ship 0's reach and closes in on it
\* along a diagonal.
CollideInputs ==
    {<<0, StartPos[0], Vec(0, 0)>>,
     <<1, VAdd(StartPos[0], Vec(36 * FIX, 48 * FIX)), Vec(-6 * FIX, -8 * FIX)>>}

NextCollide ==
    \/ \E in \in CollideInputs : Allocate(in[1], in[2], in[3])
    \/ Advance
    \/ \E s \in ShipIds : Collide(s)

SpecCollide == InitPool /\ [][NextCollide]_vars

\* ------------------------------------------------------- collision claims
\* The photon in slot k is within ship sh's reach.
InReach(sh, k) ==
    Length(VSub(sh.pos, queue[k].pos)) < sh.radius + Mul(PhotonRadius, queue[k].scale)

\* C9: a call for ship s leaves every photon owned by s as it was, and when
\* no photon of another owner is within reach it changes nothing at all,
\* whatever photons of s overlap the ship.
C9_OwnPhotonsIgnored ==
    [][\A s \in ShipIds :
         (lastOp'.op = "collide" /\ lastOp'.who = s) =>
            /\ \A k \in Live : queue[k].ship = s => queue'[k] = queue[k]
            /\ (\A k \in Live : queue[k].ship # s => ~InReach(ships[s], k))
                  => (ships' = ships /\ queue' = queue)]_vars

\* C9 witness: the call was made for a ship with a live photon of its own
\* lying exactly on it, and nothing was hit.
C9_Witness ==
    /\ lastOp.op = "collide"
    /\ lastOp.hit = {}
    /\ \E k \in Live :
          /\ queue[k].ship = lastOp.who
          /\ queue[k].pos = ships[lastOp.who].pos
          /\ queue[k].age < MAX_AGE

\* C10: a call for ship s changes only the age of photons of other owners,
\* to MAX_AGE, and the position and velocity of ship s; the first foreign
\* photon within reach is among the photons hit; the pool's size and order,
\* the other photons and the other ship stay as they were.
C10_OnlyAgeAndShip ==
    [][\A s \in ShipIds :
         (lastOp'.op = "collide" /\ lastOp'.who = s) =>
            /\ qhead' = qhead /\ qtail' = qtail /\ qsize' = qsize
            /\ \A k \in Slots :
                  \/ queue'[k] = queue[k]
                  \/ /\ k \in Live
                     /\ queue[k].ship # s
                     /\ queue'[k] = [queue[k] EXCEPT !.age = MAX_AGE]
            /\ \A k \in lastOp'.hit : queue'[k].age = MAX_AGE
            /\ \A i \in 0 .. (qsize - 1) :
                  (/\ queue[Get(i)].ship # s
                   /\ InReach(ships[s], Get(i))
                   /\ \A j \in 0 .. (i - 1) :
                         queue[Get(j)].ship = s \/ ~InReach(ships[s], Get(j)))
                  => queue'[Get(i)].age = MAX_AGE
            /\ \A t \in ShipIds \ {s} : ships'[t] = ships[t]
            /\ ships'[s] = [ships[s] EXCEPT !.pos = ships'[s].pos,
                                            !.vel = ships'[s].vel]]_vars

\* C10 witness: a photon was hit and now has age MAX_AGE, the ship has been
\* given a velocity, and another live photon was not hit.
C10_Witness ==
    /\ lastOp.op = "collide"
    /\ \E k \in lastOp.hit : queue[k].age = MAX_AGE /\ queue[k].vel # VZero
    /\ ships[lastOp.who].vel # VZero
    /\ \E k \in Live \ lastOp.hit : queue[k].age < MAX_AGE

\* --------------------------------------------------------- ship operations
Min(a, b) == IF a < b THEN a ELSE b

\* One call of Ship::move on ship s.
MoveShip(s, forward, turn) ==
    /\ ships' = [ships EXCEPT ![s] = Moved(ships[s], forward, turn)]
    /\ sinceFire' = [sinceFire EXCEPT
          ![s] = IF @ = -1 THEN -1 ELSE Min(@ + 1, RELOAD_RATE + 1)]
    /\ lastOp' = Op("move", s)
    /\ UNCHANGED <<pool, poolHist, gap, collided, prev>>

\* GameScene::firePhoton(ship): a shot is allowed once the refire counter has
\* reached the reload threshold; it adds a photon at the ship and resets the
\* counter.
FirePhoton(s, v) ==
    IF ships[s].refire >= RELOAD_RATE
    THEN /\ AddPhoton(s, ships[s].pos, v)
         /\ ships' = [ships EXCEPT ![s].refire = 0]
    ELSE UNCHANGED <<pool, ships>>

\* The fire action of ship s with fire requested.
Fire(s, v) ==
    /\ nshots < MaxShots
    /\ FirePhoton(s, v)
    /\ IF qsize' > qsize \/ qtail' # qtail
       THEN /\ tag' = [tag EXCEPT ![qtail] = nshots + 1]
            /\ nshots' = nshots + 1
            /\ gap' = [gap EXCEPT ![s] = sinceFire[s]]
            /\ sinceFire' = [sinceFire EXCEPT ![s] = 0]
            /\ lastOp' = Op("fire", s)
       ELSE /\ UNCHANGED <<tag, nshots, gap, sinceFire>>
            /\ lastOp' = Op("noFire", s)
    /\ UNCHANGED <<retired, marked, forced, collided, prev>>

\* The facing angles a ship is constructed with.
StartAngles == {0, 90 * AngUnit, 357 * AngUnit + 1}

\* Turning: one ship, every turn intent, no thrust.
InitShip ==
    /\ PoolInit
    /\ HistInit
    /\ \E a \in StartAngles :
          ships = [s \in ShipIds |-> NewShip(StartPos[s], a)]

NextShip == \E turn \in Intents : MoveShip(0, 0, turn)

SpecShip == InitShip /\ [][NextShip]_vars

\* The velocity of the photons a ship fires.
FireVelocity == [s \in ShipIds |-> Vec((1 - 2 * s) * FIX, 0)]

\* Firing: each ship moves and fires into the shared pool, in any order.
NextFire ==
    \/ \E s \in ShipIds : MoveShip(s, 0, 0)
    \/ \E s \in ShipIds : Fire(s, FireVelocity[s])

SpecFire == InitPool /\ [][NextFire]_vars

\* ------------------------------------------------------------------ bounds
\* The rectangular bounds of the playing field handed to checkInBounds:
\* cugl::Rect, an origin and a size.
Field == [origin |-> Vec(10 * FIX, 20 * FIX), size |-> Vec(240 * FIX, 160 * FIX)]

\* A faulty reflection that clamps to the far edge itself.
ReflectOntoEdge(p, v, lo, len) ==
    IF p <= lo THEN [v |-> -v, p |-> lo]
    ELSE IF p >= len + lo THEN [v |-> -v, p |-> len + lo]
    ELSE [v |-> v, p |-> p]

\* checkInBounds on one axis: "if (pos <= origin) { vel = -vel; pos = origin }
\* else if (pos >= size + origin) { vel = -vel; pos = size + origin - 1.0f }".
Reflect(p, v, lo, len) ==
    IF p <= lo THEN [v |-> -v, p |-> lo]
    ELSE IF p >= len + lo THEN [v |-> -v, p |-> len + lo - FIX]
    ELSE [v |-> v, p |-> p]

\* Position pos and velocity vel after both axes have been checked.  A NaN
\* position compares false with every edge; the negation of NaN is NaN.
Reflected(pos, vel, bounds) ==
    LET rx == Reflect(pos.x, vel.x, bounds.origin.x, bounds.size.x)
        ry == Reflect(pos.y, vel.y, bounds.origin.y, bounds.size.y)
    IN  IF pos.nan THEN [pos |-> pos, vel |-> vel]
        ELSE [pos |-> Vec(rx.p, ry.p),
              vel |-> IF vel.nan THEN VNaN ELSE Vec(rx.v, ry.v)]

\* collisions::checkInBounds(ship, bounds), the ship after the call.
CheckInBoundsShip(sh, bounds) ==
    LET r == Reflected(sh.pos, sh.vel, bounds) IN
    [sh EXCEPT !.pos = r.pos, !.vel = r.vel]

\* collisions::checkInBounds(photons, bounds), the queue after the call:
\* every photon of the queue's live range is checked.
CheckInBoundsPhotons(q, bounds) ==
    [k \in Slots |->
        IF k \in Live
        THEN LET r == Reflected(q[k].pos, q[k].vel, bounds) IN
             [q[k] EXCEPT !.pos = r.pos, !.vel = r.vel]
        ELSE q[k]]

\* The call of checkInBounds(ship, bounds) for ship s.
BoundShip(s) ==
    /\ ships' = [ships EXCEPT ![s] = CheckInBoundsShip(ships[s], Field)]
    /\ prev' = [ships |-> ships, op |-> lastOp]
    /\ lastOp' = Op("bounds", s)
    /\ UNCHANGED <<pool, poolHist, sinceFire, gap, collided>>

\* The call of checkInBounds(photons, bounds).
BoundPhotons ==
    /\ queue' = CheckInBoundsPhotons(queue, Field)
    /\ lastOp' = Op("photonBounds", -1)
    /\ UNCHANGED <<qhead, qtail, qsize, ships, poolHist, shipHist>>

\* The far edges of the field.
FarX == Field.size.x + Field.origin.x
FarY == Field.size.y + Field.origin.y

\* Coordinates before, on, between and beyond the edges of each axis.
EdgeXs == {Field.origin.x - 5 * FIX, Field.origin.x, Field.origin.x + 50 * FIX,
           FarX, FarX + 5 * FIX}
EdgeYs == {Field.origin.y - 5 * FIX, Field.origin.y, Field.origin.y + 50 * FIX,
           FarY, FarY + 5 * FIX}
\* Velocities towards each corner.
EdgeVels == {Vec(-3 * FIX, -4 * FIX), Vec(3 * FIX, 4 * FIX)}

\* The photon allocated after n earlier ones: on the low x edge and flying
\* into the field, or near the far corner and flying out of it.
BoundsInput(n) ==
    IF n % 2 = 0
    THEN <<0, Vec(Field.origin.x, Field.origin.y + 50 * FIX), Vec(4 * FIX, 0)>>
    ELSE <<1, Vec(FarX - 2 * FIX, FarY - 2 * FIX), Vec(3 * FIX, 3 * FIX)>>

\* Bounds: ship 0 starts anywhere about the field with a velocity; photons
\* are allocated, and the ships and the photons are checked against the field
\* in any order.
InitBounds ==
    /\ PoolInit
    /\ HistInit
    /\ \E x \in EdgeXs, y \in EdgeYs, v \in EdgeVels :
          ships = [s \in ShipIds |->
                     IF s = 0 THEN [NewShip(Vec(x, y), 0) EXCEPT !.vel = v]
                     ELSE NewShip(StartPos[s], 0)]

NextBounds ==
    \/ \E s \in ShipIds : BoundShip(s)
    \/ BoundPhotons
    \/ \E in \in {BoundsInput(nshots)} : Allocate(in[1], in[2], in[3])

SpecBounds == InitBounds /\ [][NextBounds]_vars

\* ----------------------------------------------------------- bounds claims
\* The outcome the bounds check must have on one axis for position p and
\* velocity v.
AxisOutcome(p, v, p1, v1, lo, far) ==
    /\ p <= lo => (v1 = -v /\ p1 = lo)
    /\ (p > lo /\ p >= far) => (v1 = -v /\ p1 = far - FIX)
    /\ (p > lo /\ p < far) => (v1 = v /\ p1 = p)

\* C11: the bounds check of a ship acts on each axis by itself: at or below
\* the origin the velocity component is negated and the position set to the
\* origin, at or beyond the far edge it is negated and the position set one
\* unit inside the far edge, and otherwise the axis stays as it was; nothing
\* else of the ship changes.
C11_BoundsPerAxis ==
    lastOp.op = "bounds" =>
        LET a == prev.ships[lastOp.who]
            b == ships[lastOp.who]
        IN  /\ AxisOutcome(a.pos.x, a.vel.x, b.pos.x, b.vel.x, Field.origin.x, FarX)
            /\ AxisOutcome(a.pos.y, a.vel.y, b.pos.y, b.vel.y, Field.origin.y, FarY)
            /\ b = [a EXCEPT !.pos = b.pos, !.vel = b.vel]
            /\ \A t \in ShipIds \ {lastOp.who} : ships[t] = prev.ships[t]

\* C11 witness: a ship that was exactly on the origin's x with a negative x
\* velocity and beyond the far y edge now has a positive x velocity on the
\* origin's x, and its y velocity has been negated too.
C11_Witness ==
    /\ lastOp.op = "bounds"
    /\ LET a == prev.ships[lastOp.who]
           b == ships[lastOp.who]
       IN  /\ a.pos.x = Field.origin.x /\ a.vel.x < 0
           /\ a.pos.y > FarY /\ a.vel.y < 0
           /\ b.pos.x = Field.origin.x /\ b.vel.x > 0
           /\ b.pos.y = FarY - FIX /\ b.vel.y > 0

\* ------------------------------------------------------------- ship vs ship
\* A faulty response that moves the first ship only.
ShipsCollidedOneSided(e, s1, s2) ==
    LET diff == VSub(s1.pos, s2.pos)
        dist == Length(diff)
        impact == s1.radius + s2.radius
        norm == Normalize(diff)
        temp == Vec(RoundDiv(norm.x * (impact - dist), 2 * FIX),
                    RoundDiv(norm.y * (impact - dist), 2 * FIX))
        imp == ImpulseWith(e, norm, VSub(s1.vel, s2.vel), s1.mass, s2.mass)
    IN  IF dist < impact
        THEN [hit |-> TRUE,
              a |-> [s1 EXCEPT
                       !.pos = VAdd(s1.pos, temp),
                       !.vel = IF imp.nan THEN VNaN
                               ELSE VAdd(s1.vel, VScale(norm, RoundDiv(imp.v * FIX, s1.mass)))],
              b |-> [s2 EXCEPT
                       !.vel = IF imp.nan THEN VNaN
                               ELSE VSub(s2.vel, VScale(norm, RoundDiv(imp.v * FIX, s2.mass)))]]
        ELSE [hit |-> FALSE, a |-> s1, b |-> s2]

\* A faulty response that also takes ships that only touch as colliding.
ShipsCollidedTouching(e, s1, s2) ==
    LET diff == VSub(s1.pos, s2.pos)
        dist == Length(diff)
        impact == s1.radius + s2.radius
        norm == Normalize(diff)
        temp == Vec(RoundDiv(norm.x * (impact - dist), 2 * FIX),
                    RoundDiv(norm.y * (impact - dist), 2 * FIX))
        imp == ImpulseWith(e, norm, VSub(s1.vel, s2.vel), s1.mass, s2.mass)
    IN  IF dist <= impact
        THEN [hit |-> TRUE,
              a |-> [s1 EXCEPT
                       !.pos = VAdd(s1.pos, temp),
                       !.vel = IF imp.nan THEN VNaN
                               ELSE VAdd(s1.vel, VScale(norm, RoundDiv(imp.v * FIX, s1.mass)))],
              b |-> [s2 EXCEPT
                       !.pos = VSub(s2.pos, temp),
                       !.vel = IF imp.nan THEN VNaN
                               ELSE VSub(s2.vel, VScale(norm, RoundDiv(imp.v * FIX, s2.mass)))]]
        ELSE [hit |-> FALSE, a |-> s1, b |-> s2]

\* collisions::checkForCollision(ship1, ship2) built with coefficient e: the
\* two ships after the call, and whether they were found colliding.  The
\* ships are rolled back by half the overlap each along norm, then their
\* velocities are changed by impulse/mass along norm.
ShipsCollidedWith(e, s1, s2) ==
    LET diff == VSub(s1.pos, s2.pos)
        dist == Length(diff)
        impact == s1.radius + s2.radius
        norm == Normalize(diff)
        temp == Vec(RoundDiv(norm.x * (impact - dist), 2 * FIX),
                    RoundDiv(norm.y * (impact - dist), 2 * FIX))
        imp == ImpulseWith(e, norm, VSub(s1.vel, s2.vel), s1.mass, s2.mass)
    IN  IF dist < impact
        THEN [hit |-> TRUE,
              a |-> [s1 EXCEPT
                       !.pos = VAdd(s1.pos, temp),
                       !.vel = IF imp.nan THEN VNaN
                               ELSE VAdd(s1.vel, VScale(norm, RoundDiv(imp.v * FIX, s1.mass)))],
              b |-> [s2 EXCEPT
                       !.pos = VSub(s2.pos, temp),
                       !.vel = IF imp.nan THEN VNaN
                               ELSE VSub(s2.vel, VScale(norm, RoundDiv(imp.v * FIX, s2.mass)))]]
        ELSE [hit |-> FALSE, a |-> s1, b |-> s2]

\* The call of checkForCollision(ship a, ship b) in a build with coefficient e.
CollideShipsWith(e, a, b) ==
    LET r == ShipsCollidedWith(e, ships[a], ships[b]) IN
    /\ a # b
    /\ ships' = [ships EXCEPT ![a] = r.a, ![b] = r.b]
    /\ prev' = [ships |-> ships, op |-> lastOp]
    /\ lastOp' = [op |-> "ships", who |-> a, hit |-> IF r.hit THEN {b} ELSE {}]
    /\ UNCHANGED <<pool, poolHist, sinceFire, gap, collided>>

\* The call as the code is built.
CollideShips(a, b) == CollideShipsWith(COLLISION_COEFF, a, b)

\* Where ship 1 lies from ship 0: on it, 70 apart to either side and above,
\* 50 apart on a diagonal, touching, and apart.
ShipOffsets ==
    {Vec(0, 0), Vec(70 * FIX, 0), Vec(-70 * FIX, 0), Vec(0, 70 * FIX),
     Vec(30 * FIX, 40 * FIX), Vec(-21 * FIX, 62 * FIX),
     Vec(80 * FIX, 0), Vec(100 * FIX, 0)}

\* The velocities of ship 0 and ship 1.
ShipVels ==
    {<<Vec(5 * FIX, 0), Vec(-5 * FIX, 0)>>,
     <<Vec(-5 * FIX, 0), Vec(5 * FIX, 0)>>,
     <<Vec(3 * FIX, 4 * FIX), Vec(-3 * FIX, -4 * FIX)>>,
     <<Vec(2 * FIX, -1 * FIX), Vec(4 * FIX, 3 * FIX)>>,
     <<Vec(0, 6 * FIX), Vec(0, 2 * FIX)>>,
     <<VZero, VZero>>}

\* Ship against ship: the two ships start in any of the places with any of
\* the velocities, the pool is empty, and the scene calls the check for
\* either order of the two ships.
InitShips ==
    /\ PoolInit
    /\ HistInit
    /\ \E d \in ShipOffsets, v \in ShipVels :
          ships = [s \in ShipIds |->
                     IF s = 0 THEN [NewShip(StartPos[0], 0) EXCEPT !.vel = v[1]]
                     ELSE [NewShip(VAdd(StartPos[0], d), 0) EXCEPT !.vel = v[2]]]

NextShips == \E a, b \in ShipIds : CollideShips(a, b)

SpecShips == InitShips /\ [][NextShips]_vars

\* ------------------------------------------------------ ship vs ship claims
\* The other ship of a call for ship a with ship b.
Other(a) == 1 - a

\* The last operation was a check of two ships that were found colliding.
ShipsHit == lastOp.op = "ships" /\ lastOp.hit # {}

\* The distance between the centres of ships sa and sb.
Apart(sa, sb) == Length(VSub(sa.pos, sb.pos))

\* The ships were 70 apart along x and closing head-on at 5 each when the
\* last check was called.
HeadOn70 ==
    \E s \in ShipIds :
        /\ prev.ships[Other(s)].pos = VAdd(prev.ships[s].pos, Vec(70 * FIX, 0))
        /\ prev.ships[s].vel = Vec(5 * FIX, 0)
        /\ prev.ships[Other(s)].vel = Vec(-5 * FIX, 0)

\* |a - b| <= t
Near(a, b, t) == a - b <= t /\ b - a <= t

\* C12: after the check of the head-on ships 70 apart each ship's velocity is
\* its velocity before with the sign reversed and the size scaled by about
\* 1.1: about (-5.5, 0) and (5.5, 0).
C12_ReversedAndScaledUp ==
    (ShipsHit /\ HeadOn70) =>
        \A s \in ShipIds :
            /\ ships[s].vel.y = 0
            /\ Near(ships[s].vel.x, -RoundDiv(11 * prev.ships[s].vel.x, 10), FIX \div 10)

\* C12, amended: each ship's velocity is its velocity before with the sign
\* reversed and the size scaled by the coefficient, about 0.1: about
\* (-0.5, 0) and (0.5, 0).
C12_ReversedAndScaledDown ==
    (ShipsHit /\ HeadOn70) =>
        \A s \in ShipIds :
            /\ ships[s].vel.y = 0
            /\ ~ships[s].vel.nan
            /\ Near(ships[s].vel.x, -RoundDiv(prev.ships[s].vel.x, 10), FIX \div 20)

\* C12 witness: the head-on ships have been checked and have rebounded.
C12_Witness ==
    /\ ShipsHit /\ HeadOn70
    /\ \A s \in ShipIds : ships[s].vel.x * prev.ships[s].vel.x < 0

\* The rounding the fixed-point arithmetic leaves in a roll-back over the
\* overlap o: a unit for each rounding and the resolution of the unit normal
\* over the overlap.
Slack(o) == 3 + o \div FIX

\* C13: a check of two ships with distinct centres closer than the sum of
\* their radii moves each by half the overlap, the first away from the second
\* and the second by the opposite of that, and leaves the centres at least
\* the sum of the radii apart (up to the rounding of the arithmetic, and
\* exactly so for ships level on an axis, as the two 70 apart are); a check
\* of ships at or beyond the sum of their radii changes nothing.
C13_PushedApart ==
    lastOp.op = "ships" =>
        LET a == lastOp.who
            b == Other(lastOp.who)
            diff == VSub(prev.ships[a].pos, prev.ships[b].pos)
            dist == Apart(prev.ships[a], prev.ships[b])
            impact == prev.ships[a].radius + prev.ships[b].radius
            moveA == VSub(ships[a].pos, prev.ships[a].pos)
            moveB == VSub(ships[b].pos, prev.ships[b].pos)
        IN  /\ (dist > 0 /\ dist < impact) =>
                  /\ lastOp.hit = {b}
                  /\ moveB = Vec(-moveA.x, -moveA.y)
                  /\ Near(2 * Length(moveA), impact - dist, Slack(impact - dist))
                  /\ moveA.x * diff.x + moveA.y * diff.y > 0
                  /\ Apart(ships[a], ships[b]) >= impact - Slack(impact - dist)
                  /\ (diff.x = 0 \/ diff.y = 0) => Apart(ships[a], ships[b]) >= impact
            /\ dist >= impact => (lastOp.hit = {} /\ ships = prev.ships)

\* C13 witness: the two ships that were 70 apart have been checked and are
\* now 80 apart, each moved by 5.
C13_Witness ==
    /\ ShipsHit
    /\ Apart(prev.ships[0], prev.ships[1]) = 70 * FIX
    /\ Apart(ships[0], ships[1]) = 80 * FIX
    /\ \A s \in ShipIds : Length(VSub(ships[s].pos, prev.ships[s].pos)) = 5 * FIX

\* The same check in a build whose COLLISION_COEFF is 0.
NextInelastic == \E a, b \in ShipIds : CollideShipsWith(0, a, b)

SpecInelastic == InitShips /\ [][NextInelastic]_vars

\* The collision normal of the last check: the unit vector from its second
\* ship to its first.
HitNormal ==
    Normalize(VSub(prev.ships[lastOp.who].pos, prev.ships[Other(lastOp.who)].pos))

\* The last check found two ships with distinct centres colliding.
ShipsHitApart == ShipsHit /\ Apart(prev.ships[0], prev.ships[1]) > 0

\* C14: with equal masses and coefficient 0, after a check that found the
\* ships colliding the component of each ship's velocity along the normal is
\* the component the other ship had before the check.
C14_NormalComponentsExchanged ==
    ShipsHitApart =>
        \A s \in ShipIds :
            Near(Dot(HitNormal, ships[s].vel),
                 Dot(HitNormal, prev.ships[Other(s)].vel), FIX \div 10)

\* C14, amended: with equal masses and coefficient 0 both ships leave with the
\* same component along the normal, the mean of the two components before
\* the check.
C14_NormalComponentsAveraged ==
    ShipsHitApart =>
        \A s \in ShipIds :
            /\ ~ships[s].vel.nan
            /\ Near(2 * Dot(HitNormal, ships[s].vel),
                    Dot(HitNormal, prev.ships[0].vel) + Dot(HitNormal, prev.ships[1].vel),
                    FIX \div 10)

\* C14 witness: two colliding ships whose components along the normal
\* differed by 10 have been checked and now share one component.
C14_Witness ==
    /\ ShipsHitApart
    /\ Near(Dot(HitNormal, prev.ships[0].vel) - Dot(HitNormal, prev.ships[1].vel),
            10 * FIX, FIX \div 10)
    /\ Near(Dot(HitNormal, ships[0].vel), Dot(HitNormal, ships[1].vel), FIX \div 10)

\* C15: a check of two ships that lie on exactly the same position is no
\* collision: it changes no position and no velocity, and no velocity is the
\* NaN of a division by a zero normal.
C15_CoincidentIsNoCollision ==
    (lastOp.op = "ships" /\ prev.ships[0].pos = prev.ships[1].pos) =>
        /\ lastOp.hit = {}
        /\ ships = prev.ships
        /\ \A s \in ShipIds : ~ships[s].vel.nan

\* ----------------------------------------------------------------- damping
\* Every angular rate the clamp of processTurn allows.
BankRates == (-(MAXIMUM_BANK * AngUnit)) .. (MAXIMUM_BANK * AngUnit)

\* Damping: ship 0 starts with any angular rate and is moved with no turn
\* and no thrust.
InitDamp ==
    /\ PoolInit
    /\ HistInit
    /\ \E d \in BankRates :
          ships = [s \in ShipIds |->
                     IF s = 0 THEN [NewShip(StartPos[s], 0) EXCEPT !.dang = d]
                     ELSE NewShip(StartPos[s], 0)]

NextDamp == MoveShip(0, 0, 0)

SpecDamp == InitDamp /\ [][NextDamp]_vars

\* C16: a move with no turn never changes the sign of the angular rate and
\* never increases its size: the new rate is the old one times
\* ANGULAR_DAMPING, rounded.
C16_DampingMonotone ==
    [][\A s \in ShipIds :
         /\ ships[s].dang >= 0 =>
               (ships'[s].dang >= 0 /\ ships'[s].dang <= ships[s].dang)
         /\ ships[s].dang <= 0 =>
               (ships'[s].dang <= 0 /\ ships'[s].dang >= ships[s].dang)
         /\ Near(1000 * ships'[s].dang, ANGULAR_DAMPING * ships[s].dang, 500)]_vars

\* C16 witness: the ship has been moved and turns at seven eighths of the
\* greatest rate to the right, a rate it can only have been damped to from
\* the greatest.
C16_Witness ==
    /\ lastOp.op = "move"
    /\ ships[0].dang < 0
    /\ Near(1000 * ships[0].dang, -(ANGULAR_DAMPING * MAXIMUM_BANK * AngUnit), 500)
    /\ ships[0].ang = WrapAngle(ships[0].dang)

\* The last operation was the check of ships (b, a) made right after the
\* check of (a, b) had found the two ships, of distinct centres, colliding.
SecondCall ==
    /\ lastOp.op = "ships"
    /\ prev.op.op = "ships"
    /\ prev.op.who = Other(lastOp.who)
    /\ prev.op.hit # {}
    /\ prev.ships[0].pos # prev.ships[1].pos

\* The relative velocity of the two ships along the line of their centres,
\* before the last check.
Closing ==
    Dot(HitNormal, VSub(prev.ships[lastOp.who].vel, prev.ships[Other(lastOp.who)].vel))

C18_DeadPhotonNeverHits ==
    [][lastOp'.op = "collide" =>
         \A k \in lastOp'.hit : queue[k].age < MAX_AGE]_vars

\* C19: after a check that found two ships with distinct centres colliding
\* the ships do not approach each other along the normal:
\* normal . (velA - velB) >= 0 with normal = normalize(posA - posB).
C19_NotApproaching ==
    ShipsHitApart =>
        LET a == lastOp.who
            b == Other(lastOp.who)
        IN  Dot(Normalize(VSub(ships[a].pos, ships[b].pos)),
                VSub(ships[a].vel, ships[b].vel)) >= 0

\* The velocity component v of an entity that the bounds check found at
\* position p does not point out of the field through the edge it was at.
PointsInward(p, v, lo, far) ==
    /\ p <= lo => v >= 0
    /\ (p > lo /\ p >= far) => v <= 0

\* C20: after a bounds check of a ship or of the photons, the velocity of an
\* entity that was at or beyond an edge does not point out of the field on
\* that axis, whatever its velocity was before.
C20_NeverOutward ==
    [][/\ lastOp'.op = "bounds" =>
            LET a == ships[lastOp'.who]
                b == ships'[lastOp'.who]
            IN  /\ PointsInward(a.pos.x, b.vel.x, Field.origin.x, FarX)
                /\ PointsInward(a.pos.y, b.vel.y, Field.origin.y, FarY)
       /\ lastOp'.op = "photonBounds" =>
            \A k \in Live :
                /\ PointsInward(queue[k].pos.x, queue'[k].vel.x, Field.origin.x, FarX)
                /\ PointsInward(queue[k].pos.y, queue'[k].vel.y, Field.origin.y, FarY)]_vars

\* ------------------------------------------------------------ ship claims
\* C6: after every call of Ship::move the facing angle is >= 0 and strictly
\* less than 360.
C6_AngleInHalfOpenRange ==
    \A s \in ShipIds : ships[s].ang >= 0 /\ ships[s].ang < 360 * AngUnit

\* The facing angle never leaves the closed range [0, 360].
AngleInClosedRange ==
    \A s \in ShipIds : ships[s].ang >= 0 /\ ships[s].ang <= 360 * AngUnit

\* C7 as stated: 0 <= refire <= RELOAD_RATE in every reachable state.
C7_RefireAtMostReload ==
    \A s \in ShipIds : ships[s].refire >= 0 /\ ships[s].refire <= RELOAD_RATE

\* C7 amended: a move adds 1 to the refire counter exactly while the counter
\* is <= RELOAD_RATE and leaves it alone otherwise, so that
\* 0 <= refire <= RELOAD_RATE + 1 in every reachable state.
C7_RefireSaturates ==
    /\ [](\A s \in ShipIds :
            ships[s].refire >= 0 /\ ships[s].refire <= RELOAD_RATE + 1)
    /\ [][\A s \in ShipIds : lastOp' = Op("move", s) =>
            ships'[s].refire =
               IF ships[s].refire <= RELOAD_RATE THEN ships[s].refire + 1
               ELSE ships[s].refire]_vars

\* C7 witness: a ship moved with its counter saturated above RELOAD_RATE
\* after an earlier shot had reset it.
C7_Witness ==
    \E s \in ShipIds :
        /\ lastOp = Op("move", s)
        /\ ships[s].refire = RELOAD_RATE + 1
        /\ sinceFire[s] = RELOAD_RATE + 1

\* C8: two successive allocations by the same ship are separated by at least
\* RELOAD_RATE calls of Ship::move on that ship.
C8_RefireInterval ==
    \A s \in ShipIds : gap[s] = -1 \/ gap[s] >= RELOAD_RATE

\* C8 witness: a ship has fired twice with exactly RELOAD_RATE moves between.
C8_Witness ==
    \E s \in ShipIds : lastOp = Op("fire", s) /\ gap[s] = RELOAD_RATE

\* ------------------------------------------------------------ pool claims
\* C1: right after advance() returns, no live photon (logical index
\* 0..size()-1) has age >= MAX_AGE.
C1_NoExpiredAfterAdvance ==
    lastOp.op = "update" => \A k \in Live : queue[k].age < MAX_AGE

\* C2: a photon on which markDead was called is not live after the very next
\* advance(), whatever its position in the pool.
C2_MarkedGoneAfterAdvance ==
    [][lastOp'.op = "update" =>
          \A k \in LiveSlots(qhead', qsize') : tag'[k] \notin marked]_vars

\* C3: size() <= capacity in every reachable state of the pool.
C3_SizeWithinCapacity == qsize >= 0 /\ qsize <= Capacity

\* C3 witness: an allocation was attempted on a full pool.
C3_Witness == lastOp.op = "addFull" /\ qsize = Capacity

C5_FifoRetirement ==
    ~forced =>
        /\ \A i \in 1 .. Len(retired) : retired[i] = <<i, MAX_AGE>>
        /\ qsize = nshots - Len(retired)
        /\ \A k \in Live : queue[k].age < MAX_AGE

\* C5 witness: three photons allocated on successive frames; the first has
\* just retired at age MAX_AGE while the other two, aged MAX_AGE-1 and
\* MAX_AGE-2, are still live.
C5_Witness ==
    /\ ~forced
    /\ lastOp.op = "update"
    /\ retired = << <<1, MAX_AGE>> >>
    /\ qsize = 2
    /\ queue[Get(0)].age = MAX_AGE - 1 /\ tag[Get(0)] = 2
    /\ queue[Get(1)].age = MAX_AGE - 2 /\ tag[Get(1)] = 3

====
